---- MODULE Spec2Model ----
(***************************************************************************)
(* Block buffer cache of Nanvix (src/kernel/fs/buffer.c).                  *)
(*                                                                         *)
(* One CPU, cooperative kernel: a process runs a kernel path until it      *)
(* sleeps (sleep() on a wait chain, or inside the block device driver) or  *)
(* returns.  Every action below is one such uninterrupted stretch of code  *)
(* executed by one process.                                                *)
(***************************************************************************)
EXTENDS Integers, Sequences, FiniteSets, TLC

(***************************************************************************)
(* Bounds of the model.                                                    *)
(***************************************************************************)
NR_BUFFERS == 2            \* size of buffers[]
BUFFERS_HASHTAB_SIZE == 2  \* size of hashtab[]
NR_PROCS == 2              \* processes that use the cache
MaxNum == 3                \* block numbers 1..MaxNum are requested
MaxOps == 7                \* calls of the cache that the processes make in all
LAST_PROC == 2             \* the scheduler walks proctab[1 .. LAST_PROC]

Bufs == 0 .. (NR_BUFFERS - 1)
Slots == 0 .. (BUFFERS_HASHTAB_SIZE - 1)
Procs == 1 .. NR_PROCS
Devs == {1}
Nums == 1 .. MaxNum

(* Pointers.  &buffers[b] is b, &free_buffers is FREE, &hashtab[i] is      *)
(* HEAD(i).  NoBuf is "no buffer" in the bookkeeping of the processes.     *)
FREE == NR_BUFFERS
HEAD(i) == NR_BUFFERS + 1 + i
NoBuf == 0 - 1

FreeNodes == Bufs \cup {FREE}
HashNodes == Bufs \cup {HEAD(i) : i \in Slots}

VARIABLES
    dev,        \* buffers[b].dev
    num,        \* buffers[b].num
    count,      \* buffers[b].count
    flags,      \* buffers[b].flags, the named flags that are set
    free_next,  \* free_next of buffers[b] and of free_buffers
    free_prev,  \* free_prev of buffers[b] and of free_buffers
    hash_next,  \* hash_next of buffers[b] and of hashtab[i]
    hash_prev,  \* hash_prev of buffers[b] and of hashtab[i]
    chain,      \* processes sleeping on the global chain
    bchain,     \* bchain[b]: processes sleeping on buffers[b].chain
    panic,      \* "" or the message of the kpanic() that halted the kernel
    intr,       \* interrupts were enabled on the CPU when the last step ended
    racy,       \* what the last step changed while interrupts were enabled
    pc,         \* where each process is
    pdev, pnum, \* arguments of the bread() a process is in
    pbuf,       \* buffer a process is locking or doing I/O on
    pcont,      \* who called the blklock() a process sleeps in
    reads,      \* device reads issued by the bread() a process is in
    pmiss,      \* the last run of getblk() by a process found its block in no buffer
    slept,      \* buffer whose reader a process waited for in this bread()
    refs,       \* buffers a process holds a reference to
    locks,      \* buffers a process holds locked
    ops,        \* calls of the cache made so far
    syncq,      \* process whose bsync() runs undisturbed since it began
    last        \* what the last step did

(* The process table, as far as the scheduler reads and writes it. *)
VARIABLES
    state,        \* proctab[p].state
    counter,      \* proctab[p].counter, the ticks left of the quantum
    priority,     \* proctab[p].priority
    tickets,      \* proctab[p].tickets
    compensation, \* proctab[p].compensation
    curr_proc,    \* the process that has the CPU
    last_proc,    \* the process that had the CPU before the last yield()
    yl            \* what the last step of the scheduler did

svars == <<state, counter, priority, tickets, compensation, curr_proc,
           last_proc, yl>>

kvars == <<dev, num, count, flags, free_next, free_prev, hash_next, hash_prev,
           chain, bchain, panic, intr, racy>>
pvars == <<pc, pdev, pnum, pbuf, pcont, reads, pmiss, slept, refs, locks>>
cvars == <<kvars, pvars, ops, syncq, last>>
vars == <<cvars, svars>>

(***************************************************************************)
(* The kernel state as one record, so that the C functions become          *)
(* operators from state to state that compose as the calls do.             *)
(***************************************************************************)
K == [dev |-> dev, num |-> num, count |-> count, flags |-> flags,
      free_next |-> free_next, free_prev |-> free_prev,
      hash_next |-> hash_next, hash_prev |-> hash_prev,
      chain |-> chain, bchain |-> bchain, panic |-> panic,
      intr |-> TRUE, racy |-> {}]

Commit(k) ==
    /\ dev' = k.dev
    /\ num' = k.num
    /\ count' = k.count
    /\ flags' = k.flags
    /\ free_next' = k.free_next
    /\ free_prev' = k.free_prev
    /\ hash_next' = k.hash_next
    /\ hash_prev' = k.hash_prev
    /\ chain' = k.chain
    /\ bchain' = k.bchain
    /\ panic' = k.panic
    /\ intr' = k.intr
    /\ racy' = k.racy

(* Bitwise exclusive or of two naturals. *)
RECURSIVE Xor(_, _)
Xor(a, b) ==
    IF a = 0 THEN b
    ELSE IF b = 0 THEN a
    ELSE ((a + b) % 2) + 2 * Xor(a \div 2, b \div 2)

HASH(d, n) == Xor(d, n) % BUFFERS_HASHTAB_SIZE

(* binit() *)
binit ==
    [dev |-> [b \in Bufs |-> 0],
     num |-> [b \in Bufs |-> 0],
     count |-> [b \in Bufs |-> 0],
     flags |-> [b \in Bufs |-> {}],
     free_next |-> [x \in FreeNodes |->
                      IF x = FREE THEN 0
                      ELSE IF x + 1 = NR_BUFFERS THEN FREE ELSE x + 1],
     free_prev |-> [x \in FreeNodes |->
                      IF x = FREE THEN NR_BUFFERS - 1
                      ELSE IF x - 1 < 0 THEN FREE ELSE x - 1],
     hash_next |-> [x \in HashNodes |-> x],
     hash_prev |-> [x \in HashNodes |-> x],
     chain |-> {},
     bchain |-> [b \in Bufs |-> {}],
     panic |-> ""]

(* sleep(&chain) and sleep(&buf->chain): the caller joins the chain. *)
sleep_any(k, p) == [k EXCEPT !.chain = @ \cup {p}]
sleep_buf(k, p, b) == [k EXCEPT !.bchain[b] = @ \cup {p}]

(* wakeup(&chain) and wakeup(&buf->chain): every sleeper becomes ready. *)
wakeup_any(k) == [k EXCEPT !.chain = {}]
wakeup_buf(k, b) == [k EXCEPT !.bchain[b] = {}]

kpanic(k, msg) == [k EXCEPT !.panic = msg]

(* disable_interrupts() and enable_interrupts() clear and set the          *)
(* interrupt flag of the CPU; they do not nest.                            *)
disable_interrupts(k) == [k EXCEPT !.intr = FALSE]
enable_interrupts(k) == [k EXCEPT !.intr = TRUE]

(* Back from sleep(): the context switch gives the process the interrupt   *)
(* flag it went to sleep with, which is clear in blklock().                *)
switch_back(k) == [k EXCEPT !.intr = FALSE]

(* The code is about to change "what" (the free list, a hash queue, a      *)
(* count, the flags of a buffer): noted when interrupts are enabled.       *)
touch(k, what) == IF k.intr THEN [k EXCEPT !.racy = @ \cup {what}] ELSE k

(* The buffer is left on the free list. *)
unlink_free_forgotten(k, b) == k

(* buf->free_prev->free_next = buf->free_next;                             *)
(* buf->free_next->free_prev = buf->free_prev;                             *)
unlink_free(k, b) ==
    LET k0 == touch(k, "free list")
        k1 == [k0 EXCEPT !.free_next[k.free_prev[b]] = k.free_next[b]]
    IN  [k1 EXCEPT !.free_prev[k1.free_next[b]] = k1.free_prev[b]]

(* The buffer is left in its old hash queue. *)
unlink_hash_forgotten(k, b) == k

(* buf->hash_prev->hash_next = buf->hash_next;                             *)
(* buf->hash_next->hash_prev = buf->hash_prev;                             *)
unlink_hash(k, b) ==
    LET k0 == touch(k, "hash queue")
        k1 == [k0 EXCEPT !.hash_next[k.hash_prev[b]] = k.hash_next[b]]
    IN  [k1 EXCEPT !.hash_prev[k1.hash_next[b]] = k1.hash_prev[b]]

(* Place buffer in a new hash queue (at its head). *)
link_hash(k, i, b) ==
    LET k0 == touch(k, "hash queue")
        k1 == [k0 EXCEPT !.hash_prev[k.hash_next[HEAD(i)]] = b]
        k2 == [k1 EXCEPT !.hash_prev[b] = HEAD(i)]
        k3 == [k2 EXCEPT !.hash_next[b] = k2.hash_next[HEAD(i)]]
    IN  [k3 EXCEPT !.hash_next[HEAD(i)] = b]

(* Insert in the end of the free list. *)
link_free_tail(k, b) ==
    LET k0 == touch(k, "free list")
        k1 == [k0 EXCEPT !.free_next[k.free_prev[FREE]] = b]
        k2 == [k1 EXCEPT !.free_prev[b] = k1.free_prev[FREE]]
        k3 == [k2 EXCEPT !.free_prev[FREE] = b]
    IN  [k3 EXCEPT !.free_next[b] = FREE]

(* The buffer is inserted in the end of the free list instead. *)
link_free_head_last(k, b) == link_free_tail(k, b)

(* Insert in the begin of the free list. *)
link_free_head(k, b) ==
    LET k0 == touch(k, "free list")
        k1 == [k0 EXCEPT !.free_prev[k.free_next[FREE]] = b]
        k2 == [k1 EXCEPT !.free_prev[b] = FREE]
        k3 == [k2 EXCEPT !.free_next[b] = k2.free_next[FREE]]
    IN  [k3 EXCEPT !.free_next[FREE] = b]

(* The reference count is left as it is. *)
take_ref_uncounted(k, b) ==
    IF k.count[b] = 0 THEN unlink_free(k, b) ELSE k

(* if (buf->count++ == 0) { remove buffer from the free list }             *)
(* (lines 131-135 of getblk() and 355-359 of bsync()).                     *)
take_ref(k, b) ==
    LET k1 == [touch(k, "count") EXCEPT !.count[b] = @ + 1]
    IN  IF k.count[b] = 0 THEN unlink_free(k1, b) ELSE k1

(***************************************************************************)
(* blklock(): the while loop of line 209.  "ok" when the lock was taken,   *)
(* "sleep" when the caller went to sleep on the buffer's chain.            *)
(***************************************************************************)
blklock_loop(k, p, b) ==
    IF "LOCKED" \in k.flags[b]
    THEN [k |-> sleep_buf(k, p, b), out |-> "sleep"]
    ELSE [k |-> enable_interrupts([touch(k, "flags") EXCEPT
                                     !.flags[b] = @ \cup {"LOCKED"}]),
          out |-> "ok"]

(* blklock() from its call on. *)
blklock(k, p, b) == blklock_loop(disable_interrupts(k), p, b)

(* A sleeper of blklock() that is woken takes the lock without testing     *)
(* LOCKED again (an "if" in place of the "while").                         *)
blklock_norecheck(k, p, b) ==
    [k |-> enable_interrupts([touch(switch_back(k), "flags") EXCEPT
                                !.flags[b] = @ \cup {"LOCKED"}]),
     out |-> "ok"]

(* Back from sleep() in blklock(): the while condition is tested again. *)
blklock_again(k, p, b) == blklock_loop(switch_back(k), p, b)

(* blkunlock() clears LOCKED but wakes nobody. *)
blkunlock_nowakeup(k, b) ==
    LET k0 == touch(disable_interrupts(k), "flags")
    IN  enable_interrupts([k0 EXCEPT !.flags[b] = @ \ {"LOCKED"}])

(* blkunlock() wakes the sleepers but leaves LOCKED set. *)
blkunlock_stays_locked(k, b) ==
    enable_interrupts(wakeup_buf(disable_interrupts(k), b))

(* blkunlock() *)
blkunlock(k, b) ==
    LET k0 == touch(disable_interrupts(k), "flags")
    IN  enable_interrupts(wakeup_buf([k0 EXCEPT !.flags[b] = @ \ {"LOCKED"}], b))

(* No freed buffer is taken for frequently used. *)
frequently_used_never(k, b) == FALSE

(* brelse(): the test that sends a freed buffer to the end of the list. *)
frequently_used(k, b) ==
    ("VALID" \in k.flags[b]) /\ ("DIRTY" \in k.flags[b])

(* brelse() without the test "Should not happen" of line 280. *)
brelse_unchecked(k, b) ==
    LET k1 == [touch(disable_interrupts(k), "count") EXCEPT !.count[b] = @ - 1]
        k2 == IF k1.count[b] = 0
              THEN LET kw == wakeup_any(k1)
                   IN  IF frequently_used(kw, b)
                       THEN link_free_tail(kw, b)
                       ELSE link_free_head(kw, b)
              ELSE k1
    IN  enable_interrupts(blkunlock(k2, b))

(* brelse() without the wakeup(&chain) of line 258. *)
brelse_nowakeup(k, b) ==
    LET k1 == [touch(disable_interrupts(k), "count") EXCEPT !.count[b] = @ - 1]
        k2 == IF k1.count[b] = 0
              THEN IF frequently_used(k1, b)
                   THEN link_free_tail(k1, b)
                   ELSE link_free_head(k1, b)
              ELSE k1
    IN  IF k2.count[b] < 0
        THEN kpanic(k2, "fs: freeing buffer twice")
        ELSE enable_interrupts(blkunlock(k2, b))

(* brelse() *)
brelse(k, b) ==
    LET k1 == [touch(disable_interrupts(k), "count") EXCEPT !.count[b] = @ - 1]
        k2 == IF k1.count[b] = 0
              THEN LET kw == wakeup_any(k1)
                   IN  IF frequently_used(kw, b)
                       THEN link_free_tail(kw, b)
                       ELSE link_free_head(kw, b)
              ELSE k1
    IN  IF k2.count[b] < 0
        THEN kpanic(k2, "fs: freeing buffer twice")
        ELSE enable_interrupts(blkunlock(k2, b))

(***************************************************************************)
(* getblk(): the search of hash queue i (lines 114-141).  The result is    *)
(* the first buffer of the queue that carries (d, n), NoBuf when the walk  *)
(* comes back to the head, and HANG when the walk never ends.              *)
(***************************************************************************)
HANG == 0 - 2

RECURSIVE walk_hash(_, _, _, _, _, _)
walk_hash(k, i, buf, d, n, fuel) ==
    IF buf = HEAD(i) THEN NoBuf
    ELSE IF fuel = 0 \/ buf \notin Bufs THEN HANG
    ELSE IF (k.dev[buf] # d) \/ (k.num[buf] # n)
         THEN walk_hash(k, i, k.hash_next[buf], d, n, fuel - 1)
         ELSE buf

(* The search gives up after the first buffer of the queue. *)
search_first(k, i, d, n) ==
    LET buf == k.hash_next[HEAD(i)]
    IN  IF buf = HEAD(i) THEN NoBuf
        ELSE IF (k.dev[buf] # d) \/ (k.num[buf] # n) THEN NoBuf ELSE buf

search(k, i, d, n) ==
    walk_hash(k, i, k.hash_next[HEAD(i)], d, n, NR_BUFFERS + 1)

(* The victim gets the block number but keeps its device number. *)
reassign_num_only(k, b, d, n) ==
    [touch(k, "flags") EXCEPT !.num[b] = n, !.flags[b] = @ \ {"VALID"}]

(* Reassigns device and block number (lines 178-180). *)
reassign(k, b, d, n) ==
    [touch(k, "flags") EXCEPT
        !.dev[b] = d, !.num[b] = n, !.flags[b] = @ \ {"VALID"}]

(* The test of the victim's DIRTY flag is left out. *)
victim_dirty_ignored(k, b) == FALSE

(* "Buffer is dirty": the test of the victim taken from the free list      *)
(* (line 164).                                                             *)
victim_dirty(k, b) == "DIRTY" \in k.flags[b]

(***************************************************************************)
(* getblk() from the label repeat to its next sleep(), kpanic() or return. *)
(* out: "ret" (buf is returned), "sleep_buf" (line 126), "sleep_any" (line *)
(* 150), "sleep_lock" (inside the blklock() of line 137 or 188), "panic".  *)
(***************************************************************************)
getblk(k0, p, d, n) ==
    LET i == HASH(d, n)
        k == disable_interrupts(k0)
        buf == search(k, i, d, n)
    IN  IF (d = 0) /\ (n = 0)
        THEN [k |-> kpanic(k0, "getblk(0, 0)"), out |-> "panic",
              buf |-> NoBuf, miss |-> FALSE]
        ELSE IF buf = HANG
        THEN [k |-> kpanic(k, "hang"), out |-> "panic",
              buf |-> NoBuf, miss |-> FALSE]
        ELSE IF buf # NoBuf
        THEN IF "LOCKED" \in k.flags[buf]
             THEN [k |-> sleep_buf(k, p, buf), out |-> "sleep_buf",
                   buf |-> buf, miss |-> FALSE]
             ELSE LET r == blklock(take_ref(k, buf), p, buf)
                  IN  [k |-> IF r.out = "ok" THEN enable_interrupts(r.k)
                                              ELSE r.k,
                       out |-> IF r.out = "ok" THEN "ret" ELSE "sleep_lock",
                       buf |-> buf, miss |-> FALSE]
        ELSE IF FREE = k.free_next[FREE]
        THEN [k |-> sleep_any(k, p), out |-> "sleep_any",
              buf |-> NoBuf, miss |-> TRUE]
        ELSE LET vic == k.free_next[FREE]
                 k1 == unlink_free(k, vic)
                 k2 == [touch(k1, "count") EXCEPT !.count[vic] = @ + 1]
             IN  IF victim_dirty(k2, vic)
                 THEN [k |-> kpanic(k2, "fs: asynchronous write"),
                       out |-> "panic", buf |-> vic, miss |-> TRUE]
                 ELSE LET k3 == unlink_hash(k2, vic)
                          k4 == reassign(k3, vic, d, n)
                          k5 == link_hash(k4, i, vic)
                          r == blklock(k5, p, vic)
                      IN  [k |-> IF r.out = "ok" THEN enable_interrupts(r.k)
                                                  ELSE r.k,
                           out |-> IF r.out = "ok" THEN "ret" ELSE "sleep_lock",
                           buf |-> vic, miss |-> TRUE]

(* bread() reads the device whether the buffer is valid or not. *)
must_read_always(k, b) == TRUE

(* bread(): "Valid buffer?" (line 308); otherwise the device is read. *)
must_read(k, b) == "VALID" \notin k.flags[b]

(***************************************************************************)
(* bsync(): the loop from buffer i to its next sleep or to its end.        *)
(* out: "ret" (bsync returns), "sleep" (in the blklock() of buffer buf),   *)
(* "io" (in bdev_writeblk() of buffer buf).                                *)
(***************************************************************************)
(* The loop of bsync() stops one buffer short. *)
bsync_end_short == NR_BUFFERS - 1

(* The loop of bsync() ends at &buffers[NR_BUFFERS] (line 340). *)
bsync_end == NR_BUFFERS

RECURSIVE bsync_from(_, _, _)
RECURSIVE bsync_locked(_, _, _)

(* The body of the loop once buffers[i] is locked (lines 344-366). *)
bsync_locked(k, p, i) ==
    IF "VALID" \notin k.flags[i]
    THEN bsync_from(blkunlock(k, i), p, i + 1)
    ELSE [k |-> take_ref(k, i), out |-> "io", buf |-> i]

bsync_from(k, p, i) ==
    IF i >= bsync_end
    THEN [k |-> k, out |-> "ret", buf |-> NoBuf]
    ELSE LET r == blklock(k, p, i)
         IN  IF r.out = "sleep"
             THEN [k |-> r.k, out |-> "sleep", buf |-> i]
             ELSE bsync_locked(r.k, p, i)

(***************************************************************************)
(* The block device driver, as the cache relies on it: bdev_readblk()      *)
(* fills the buffer and sets VALID; bdev_writeblk() writes the buffer,     *)
(* clears DIRTY and releases the buffer with brelse().                     *)
(***************************************************************************)
bdev_readblk(k, b) == [k EXCEPT !.flags[b] = @ \cup {"VALID"}]

bdev_writeblk(k, b) == brelse([k EXCEPT !.flags[b] = @ \ {"DIRTY"}], b)

(***************************************************************************)
(* The scheduler (src/unnamed/part_000).  proctab[0] is IDLE; the loops of *)
(* yield() walk proctab[FIRST_PROC .. LAST_PROC], which leaves IDLE out.   *)
(***************************************************************************)
IDLE == 0
FIRST_PROC == 1
Tasks == IDLE .. LAST_PROC
Table == FIRST_PROC .. LAST_PROC

PROC_QUANTUM == 100
PRIO_USER == 40
NORMALIZATION_VALUE == 70

(* proctab[p].nice, which the scheduler only reads. *)
nice(p) == IF p = FIRST_PROC THEN 20 ELSE 0

(* Values of CURRENT_TIME at the calls of yield(), values of the counter   *)
(* that the clock leaves to the running process, and numbers of tickets    *)
(* that next_process() is called with.                                     *)
Clock == {0, 1, 35, 24884}
Counters == {0, 40, 75, PROC_QUANTUM}
Totals == {1, 2, 40, 65538}

(* The process table as one record. *)
S == [state |-> state, counter |-> counter, priority |-> priority,
      tickets |-> tickets, compensation |-> compensation,
      curr_proc |-> curr_proc, last_proc |-> last_proc]

CommitSched(s) ==
    /\ state' = s.state
    /\ counter' = s.counter
    /\ priority' = s.priority
    /\ tickets' = s.tickets
    /\ compensation' = s.compensation
    /\ curr_proc' = s.curr_proc
    /\ last_proc' = s.last_proc

(* The upper half of the seed, not reduced modulo 32768. *)
rand_unreduced(t) ==
    LET th == t \div 65536
        tl == t % 65536
        lo == tl * 20077
        s0 == (lo % 65536) + 12345
    IN  ((lo \div 65536) + ((th * 20077) % 65536) + ((tl * 16838) % 65536)
         + (s0 \div 65536)) % 65536

(***************************************************************************)
(* rand(), with t the value of CURRENT_TIME:                               *)
(*   seed = t * 1103515245 + 12345   (unsigned, modulo 2^32)               *)
(*   return (seed / 65536) % 32768                                         *)
(* computed on 16 bit halves: 1103515245 = 16838 * 65536 + 20077, and      *)
(* seed / 65536 is the upper half of the seed.                             *)
(***************************************************************************)
rand(t) ==
    LET th == t \div 65536
        tl == t % 65536
        lo == tl * 20077
        s0 == (lo % 65536) + 12345
        hi == ((lo \div 65536) + ((th * 20077) % 65536)
               + ((tl * 16838) % 65536) + (s0 \div 65536)) % 65536
    IN  hi % 32768

(* next_process(total_tickets), called when CURRENT_TIME is t. *)
next_process(t, total_tickets) == ((rand(t) * total_tickets) \div 32768) + 1

(***************************************************************************)
(* Single precision floating point, for add_compensation(): the positive   *)
(* value m * 2^e with 2^23 <= m < 2^24, results rounded to nearest, ties   *)
(* to even.                                                                *)
(***************************************************************************)
RECURSIVE Pow2(_)
Pow2(n) == IF n = 0 THEN 1 ELSE 2 * Pow2(n - 1)

RECURSIVE normalize(_, _)
normalize(m, e) ==
    IF m >= Pow2(23) THEN [m |-> m, e |-> e] ELSE normalize(2 * m, e - 1)

(* Conversion of an int n, 0 < n < 2^24, to float: exact. *)
to_float(n) == normalize(n, 0)

(* k more binary digits of a quotient q with remainder r, divisor d. *)
RECURSIVE long_div(_, _, _, _)
long_div(q, r, d, k) ==
    IF k = 0 THEN [q |-> q, r |-> r]
    ELSE IF 2 * r >= d
         THEN long_div(2 * q + 1, 2 * r - d, d, k - 1)
         ELSE long_div(2 * q, 2 * r, d, k - 1)

(* a / b in float. *)
fdiv(a, b) ==
    LET k == IF a.m >= b.m THEN 23 ELSE 24
        x == long_div(a.m \div b.m, a.m % b.m, b.m, k)
        up == (2 * x.r > b.m) \/ ((2 * x.r = b.m) /\ (x.q % 2 = 1))
        q == IF up THEN x.q + 1 ELSE x.q
    IN  IF q = Pow2(24)
        THEN [m |-> Pow2(23), e |-> a.e - b.e - k + 1]
        ELSE [m |-> q, e |-> a.e - b.e - k]

(* (unsigned int) f: the fraction is dropped. *)
to_uint(f) ==
    IF f.e >= 0 THEN f.m * Pow2(f.e) ELSE f.m \div Pow2(0 - f.e)

(* sched() leaves the state of the process as it is. *)
sched_keeps_state(s, p) == [s EXCEPT !.counter[p] = 0]

(* sched() *)
sched(s, p) == [s EXCEPT !.state[p] = "READY", !.counter[p] = 0]

(* resume() *)
resume(s, p) == IF s.state[p] = "STOPPED" THEN sched(s, p) ELSE s

(* add_compensation() *)
add_compensation(s) ==
    LET c == s.curr_proc
    IN  IF (s.counter[c] > 0) /\ (s.counter[c] # PROC_QUANTUM)
        THEN LET used_quantum == to_float(PROC_QUANTUM - s.counter[c])
                 fraction == fdiv(used_quantum, to_float(PROC_QUANTUM))
                 comp == fdiv(to_float(s.tickets[c]), fraction)
                 final == to_uint(comp) - s.tickets[c]
             IN  [s EXCEPT !.compensation[c] = final]
        ELSE s

(* yield(): "count tickets of all ready process" (lines 106-111). *)
RECURSIVE count_tickets(_, _)
count_tickets(s, p) ==
    IF p > LAST_PROC THEN 0
    ELSE (IF s.state[p] = "READY"
          THEN s.tickets[p] + s.compensation[p]
          ELSE 0) + count_tickets(s, p + 1)

(* yield(): "Choose the process that contains the winner ticket" (lines    *)
(* 123-141); IDLE when the loop ends without a break.                      *)
RECURSIVE walk_tickets(_, _, _, _)
walk_tickets(s, p, tickets_sum, sorted_ticket) ==
    IF p > LAST_PROC THEN IDLE
    ELSE IF s.state[p] # "READY"
         THEN walk_tickets(s, p + 1, tickets_sum, sorted_ticket)
         ELSE LET sum == tickets_sum + s.tickets[p] + s.compensation[p]
              IN  IF sum > sorted_ticket
                  THEN p
                  ELSE walk_tickets(s, p + 1, sum, sorted_ticket)

(* yield(): "Switch to next process" (lines 144-149). *)
switch_next(s, next) ==
    [s EXCEPT !.priority[next] = PRIO_USER,
              !.state[next] = "RUNNING",
              !.counter[next] = PROC_QUANTUM,
              !.tickets[next] = (PRIO_USER * (0 - 1)) + NORMALIZATION_VALUE
                                - nice(next),
              !.compensation[next] = 0,
              !.curr_proc = next]

(***************************************************************************)
(* yield(), called when CURRENT_TIME is t.  mid is the process table when  *)
(* the tickets are counted.  The alarms that yield() checks on its way     *)
(* touch only proctab[p].alarm and the pending signals, which the          *)
(* selection does not read.                                                *)
(***************************************************************************)
yield(s, t) ==
    LET c == s.curr_proc
        s1 == IF s.state[c] = "RUNNING" THEN sched(add_compensation(s), c)
                                        ELSE s
        s2 == [s1 EXCEPT !.last_proc = c]
        total_tickets == count_tickets(s2, FIRST_PROC)
        sorted_ticket == next_process(t, total_tickets)
        next == walk_tickets(s2, FIRST_PROC, 0, sorted_ticket)
    IN  [s |-> switch_next(s2, next), mid |-> s2, total |-> total_tickets,
         draw |-> sorted_ticket, next |-> next]

(* stop(); the signal to the father changes nothing that yield() reads. *)
stop(s, t) == yield([s EXCEPT !.state[s.curr_proc] = "STOPPED"], t)

(***************************************************************************)
(* The record of the last step of the scheduler.                           *)
(*   op      "boot", "yield", "stop", "resume", "sched", "tick", "draw"    *)
(*   clock   CURRENT_TIME at the call                                      *)
(*   cur     the process that called yield(), ran whether it was RUNNING,  *)
(*           tickets, counter and comp0 its tickets, counter and           *)
(*           compensation at the call, comp its compensation when the      *)
(*           tickets were counted                                          *)
(*   ready   the processes that were READY when the tickets were counted   *)
(*   total   total_tickets, rnd the value of rand(), draw the winning      *)
(*           ticket, next the process that was selected                    *)
(***************************************************************************)
Yl(op) ==
    [op |-> op, clock |-> 0, cur |-> IDLE, ran |-> FALSE, tickets |-> 0,
     counter |-> 0, comp0 |-> 0, comp |-> 0, ready |-> {}, total |-> 0,
     rnd |-> 0, draw |-> 0, next |-> IDLE]

YieldDone(op, s0, t, r) ==
    /\ CommitSched(r.s)
    /\ yl' = [Yl(op) EXCEPT
                !.clock = t,
                !.cur = s0.curr_proc,
                !.ran = (s0.state[s0.curr_proc] = "RUNNING"),
                !.tickets = s0.tickets[s0.curr_proc],
                !.counter = s0.counter[s0.curr_proc],
                !.comp0 = s0.compensation[s0.curr_proc],
                !.comp = r.mid.compensation[s0.curr_proc],
                !.ready = {p \in Table : r.mid.state[p] = "READY"},
                !.total = r.total,
                !.rnd = rand(t),
                !.draw = r.draw,
                !.next = r.next]

(* The process table after boot: IDLE runs, the others are ready. *)
SchedInit ==
    /\ state = [p \in Tasks |-> IF p = IDLE THEN "RUNNING" ELSE "READY"]
    /\ counter = [p \in Tasks |-> IF p = IDLE THEN PROC_QUANTUM ELSE 0]
    /\ priority = [p \in Tasks |-> PRIO_USER]
    /\ tickets = [p \in Tasks |->
                    (PRIO_USER * (0 - 1)) + NORMALIZATION_VALUE - nice(p)]
    /\ compensation = [p \in Tasks |-> 0]
    /\ curr_proc = IDLE
    /\ last_proc = IDLE
    /\ yl = Yl("boot")

(* The running process, or the clock interrupt in its name, calls yield(). *)
yield_call(t) ==
    /\ YieldDone("yield", S, t, yield(S, t))
    /\ UNCHANGED cvars

(* The running process calls stop(). *)
stop_call(t) ==
    /\ curr_proc # IDLE
    /\ state[curr_proc] = "RUNNING"
    /\ YieldDone("stop", [S EXCEPT !.state[curr_proc] = "STOPPED"], t,
                 stop(S, t))
    /\ UNCHANGED cvars

(* resume(p) *)
resume_call(p) ==
    /\ CommitSched(resume(S, p))
    /\ yl' = [Yl("resume") EXCEPT !.cur = p]
    /\ UNCHANGED cvars

(* sched(p) of a process that is not running. *)
sched_call(p) ==
    /\ state[p] # "RUNNING"
    /\ CommitSched(sched(S, p))
    /\ yl' = [Yl("sched") EXCEPT !.cur = p]
    /\ UNCHANGED cvars

(* The clock takes ticks off the quantum of the running process. *)
clock_tick(c) ==
    /\ state[curr_proc] = "RUNNING"
    /\ c < counter[curr_proc]
    /\ counter' = [counter EXCEPT ![curr_proc] = c]
    /\ yl' = Yl("tick")
    /\ UNCHANGED <<state, priority, tickets, compensation, curr_proc,
                   last_proc>>
    /\ UNCHANGED cvars

(* next_process(n) is called when CURRENT_TIME is t. *)
next_process_call(t, n) ==
    /\ yl' = [Yl("draw") EXCEPT !.clock = t, !.total = n, !.rnd = rand(t),
                                !.draw = next_process(t, n)]
    /\ UNCHANGED <<state, counter, priority, tickets, compensation, curr_proc,
                   last_proc>>
    /\ UNCHANGED cvars

SchedNext ==
    \/ \E t \in Clock : yield_call(t)
    \/ \E t \in Clock : stop_call(t)
    \/ \E p \in Table : resume_call(p)
    \/ \E p \in Table : sched_call(p)
    \/ \E c \in Counters : clock_tick(c)
    \/ \E t \in Clock, n \in Totals : next_process_call(t, n)

(***************************************************************************)
(* The record of the last step.                                            *)
(*   op     what happened: "getblk_ret" (getblk() returned buf and the     *)
(*          device read began), "bread_ret" (bread() returned buf),        *)
(*          "sleep_buf", "sleep_any", "sleep_lock", "brelse", "blklock",   *)
(*          "blkunlock", "dirty", "bsync_io", "bsync_ret", "write_done",   *)
(*          "panic"                                                        *)
(*   p, buf the process and the buffer of the step                         *)
(*   dev, num  the identity asked for, or that of the released buffer      *)
(*   reads  device reads issued by the bread() that returned               *)
(*   miss   the bread() that returned took the buffer from the free list   *)
(*   slept  buffer whose reader the bread() that returned waited for       *)
(*   retry  the sleep the step came back from: "any" (global chain), "buf" *)
(*          (chain of a buffer, in getblk()), "lock" (in blklock()), or "" *)
(*   follows  the step came right after the step it answers: a bread() or  *)
(*          a retry of getblk() right after the brelse() of the buffer     *)
(*          that carried its block, a brelse() right after the bread()     *)
(*          that returned its buffer                                       *)
(*   hit    the bread() found its block cached, valid and unlocked when it *)
(*          was called, and pre is the cache as it was then                *)
(*   quiet  the bsync() that returned ran with every other process idle,   *)
(*          and wasdirty says that a buffer was dirty when it began        *)
(*   reused the getblk() that returned took from the free list the buffer  *)
(*          that the step before had released                              *)
(***************************************************************************)
Ev(op, p, b) ==
    [op |-> op, p |-> p, buf |-> b, dev |-> 0, num |-> 0, reads |-> 0,
     miss |-> FALSE, slept |-> NoBuf, retry |-> "", follows |-> FALSE,
     hit |-> FALSE, quiet |-> FALSE, wasdirty |-> FALSE, pre |-> <<>>,
     reused |-> FALSE]

RECURSIVE walk_bucket(_, _, _, _)
walk_bucket(k, i, x, fuel) ==
    IF x = HEAD(i) \/ fuel = 0 \/ x \notin Bufs THEN <<>>
    ELSE <<x>> \o walk_bucket(k, i, k.hash_next[x], fuel - 1)

(* The buffers of hash queue i, from hashtab[i].hash_next on. *)
Bucket(k, i) == walk_bucket(k, i, k.hash_next[HEAD(i)], NR_BUFFERS + 1)

RECURSIVE walk_free(_, _, _)
walk_free(k, x, fuel) ==
    IF x = FREE \/ fuel = 0 THEN <<>>
    ELSE <<x>> \o walk_free(k, k.free_next[x], fuel - 1)

(* The buffers of the free list, from free_buffers.free_next on. *)
FreeList(k) == walk_free(k, k.free_next[FREE], NR_BUFFERS + 1)

Range(s) == {s[j] : j \in 1 .. Len(s)}

(* What a caller can observe of the cache: identities, counts, flags and   *)
(* the contents of the hash queues.                                        *)
Logical(k) ==
    [dev |-> k.dev, num |-> k.num, count |-> k.count, flags |-> k.flags,
     buckets |-> [i \in Slots |-> Range(Bucket(k, i))]]

Awake(p) == (p \notin chain) /\ (\A b \in Bufs : p \notin bchain[b])
Running == panic = ""

Idle(p) ==
    /\ pc' = [pc EXCEPT ![p] = "idle"]
    /\ pdev' = [pdev EXCEPT ![p] = 0]
    /\ pnum' = [pnum EXCEPT ![p] = 0]
    /\ pbuf' = [pbuf EXCEPT ![p] = NoBuf]
    /\ pcont' = [pcont EXCEPT ![p] = ""]
    /\ reads' = [reads EXCEPT ![p] = 0]
    /\ pmiss' = [pmiss EXCEPT ![p] = FALSE]
    /\ slept' = [slept EXCEPT ![p] = NoBuf]

(* A call of the cache by a process that is not in the cache. *)
Call(p) ==
    /\ Running
    /\ pc[p] = "idle"
    /\ ops < MaxOps
    /\ ops' = ops + 1
    /\ UNCHANGED svars

(* A process goes on in the call it is in. *)
GoOn(p, at) ==
    /\ Running
    /\ pc[p] = at
    /\ UNCHANGED ops
    /\ UNCHANGED svars

(* No bsync() runs undisturbed. *)
NoSync == [p |-> 0, dirty |-> FALSE]

(* A step of process p ends the undisturbed run of another's bsync(). *)
Disturbed(p) == IF syncq.p = p THEN syncq ELSE NoSync
Disturb(p) == syncq' = Disturbed(p)

Init ==
    /\ dev = binit.dev
    /\ num = binit.num
    /\ count = binit.count
    /\ flags = binit.flags
    /\ free_next = binit.free_next
    /\ free_prev = binit.free_prev
    /\ hash_next = binit.hash_next
    /\ hash_prev = binit.hash_prev
    /\ chain = binit.chain
    /\ bchain = binit.bchain
    /\ panic = binit.panic
    /\ intr = TRUE
    /\ racy = {}
    /\ pc = [p \in Procs |-> "idle"]
    /\ pdev = [p \in Procs |-> 0]
    /\ pnum = [p \in Procs |-> 0]
    /\ pbuf = [p \in Procs |-> NoBuf]
    /\ pcont = [p \in Procs |-> ""]
    /\ reads = [p \in Procs |-> 0]
    /\ pmiss = [p \in Procs |-> FALSE]
    /\ slept = [p \in Procs |-> NoBuf]
    /\ refs = [p \in Procs |-> {}]
    /\ locks = [p \in Procs |-> {}]
    /\ ops = 0
    /\ syncq = NoSync
    /\ last = Ev("binit", 0, NoBuf)
    /\ SchedInit

(***************************************************************************)
(* bread() from the return of getblk() on (lines 307-313): the buffer b is *)
(* returned at once when it is valid, and read from the device otherwise.  *)
(***************************************************************************)
GetblkReturned(p, k, b, d, n, miss, sl, e) ==
    /\ Commit(k)
    /\ refs' = [refs EXCEPT ![p] = @ \cup {b}]
    /\ locks' = [locks EXCEPT ![p] = @ \cup {b}]
    /\ IF must_read(k, b)
       THEN /\ pc' = [pc EXCEPT ![p] = "bread_io"]
            /\ pdev' = [pdev EXCEPT ![p] = d]
            /\ pnum' = [pnum EXCEPT ![p] = n]
            /\ pbuf' = [pbuf EXCEPT ![p] = b]
            /\ pcont' = [pcont EXCEPT ![p] = ""]
            /\ reads' = [reads EXCEPT ![p] = @ + 1]
            /\ pmiss' = [pmiss EXCEPT ![p] = miss]
            /\ slept' = [slept EXCEPT ![p] = sl]
            /\ last' = [e EXCEPT !.op = "getblk_ret", !.buf = b,
                                   !.miss = miss, !.slept = sl]
       ELSE /\ Idle(p)
            /\ last' = [e EXCEPT !.op = "bread_ret", !.buf = b,
                                   !.reads = reads[p], !.miss = miss,
                                   !.slept = sl]

(***************************************************************************)
(* One run of getblk(d, n) by p, from the label repeat.  call is TRUE for  *)
(* the first run of a bread() and FALSE after a sleep().                   *)
(***************************************************************************)
GetblkStep(p, d, n, call) ==
    LET r == getblk(K, p, d, n)
        sl == IF /\ call
                 /\ r.out = "sleep_buf"
                 /\ \E q \in Procs : pc[q] = "bread_io" /\ pbuf[q] = r.buf
              THEN r.buf
              ELSE slept[p]
        hit == call /\ r.out = "ret" /\ ~r.miss /\ ~must_read(r.k, r.buf)
        fol == /\ last.op = "brelse"
               /\ last.dev = d
               /\ last.num = n
               /\ IF call THEN last.p = p ELSE last.buf = slept[p]
        e == [Ev(r.out, p, r.buf) EXCEPT
                !.dev = d, !.num = n,
                !.retry = IF call THEN "" ELSE IF pmiss[p] THEN "any" ELSE "buf",
                !.follows = fol,
                !.hit = hit,
                !.pre = IF hit THEN Logical(K) ELSE <<>>,
                !.reused = (r.out = "ret" /\ r.miss /\ last.op = "brelse"
                            /\ last.buf = r.buf)]
    IN  CASE r.out = "ret" ->
               GetblkReturned(p, r.k, r.buf, d, n, r.miss, sl, e)
          [] r.out \in {"sleep_buf", "sleep_any"} ->
               /\ Commit(r.k)
               /\ pc' = [pc EXCEPT ![p] = "getblk"]
               /\ pdev' = [pdev EXCEPT ![p] = d]
               /\ pnum' = [pnum EXCEPT ![p] = n]
               /\ pmiss' = [pmiss EXCEPT ![p] = r.miss]
               /\ slept' = [slept EXCEPT ![p] = sl]
               /\ UNCHANGED <<pbuf, pcont, reads, refs, locks>>
               /\ last' = e
          [] r.out = "sleep_lock" ->
               /\ Commit(r.k)
               /\ pc' = [pc EXCEPT ![p] = "blklock"]
               /\ pdev' = [pdev EXCEPT ![p] = d]
               /\ pnum' = [pnum EXCEPT ![p] = n]
               /\ pbuf' = [pbuf EXCEPT ![p] = r.buf]
               /\ pcont' = [pcont EXCEPT ![p] = "getblk"]
               /\ pmiss' = [pmiss EXCEPT ![p] = r.miss]
               /\ UNCHANGED <<reads, slept, refs, locks>>
               /\ last' = e
          [] r.out = "panic" ->
               /\ Commit(r.k)
               /\ UNCHANGED pvars
               /\ last' = e

(* The identity of buffer b is (d, n). *)
Holds(b, d, n) == dev[b] = d /\ num[b] = n

(***************************************************************************)
(* bread(d, n) is called by an idle process.  A process does not ask for a *)
(* block it already holds, and never for (0, 0).                           *)
(***************************************************************************)
bread(p, d, n) ==
    /\ Call(p)
    /\ \A b \in refs[p] : ~Holds(b, d, n)
    /\ GetblkStep(p, d, n, TRUE)
    /\ Disturb(p)

(* Back from sleep() in getblk(): goto repeat. *)
getblk_repeat(p) ==
    /\ GoOn(p, "getblk")
    /\ Awake(p)
    /\ GetblkStep(p, pdev[p], pnum[p], FALSE)
    /\ Disturb(p)

(* The device read of bread() completes and bread() returns. *)
bread_done(p) ==
    /\ GoOn(p, "bread_io")
    /\ Commit(bdev_readblk(K, pbuf[p]))
    /\ Idle(p)
    /\ UNCHANGED <<refs, locks>>
    /\ last' = [Ev("bread_ret", p, pbuf[p]) EXCEPT
                  !.dev = pdev[p], !.num = pnum[p], !.reads = reads[p],
                  !.miss = pmiss[p], !.slept = slept[p]]
    /\ Disturb(p)

(* brelse(buf) by a process that holds buf locked. *)
release_block(p, b) ==
    /\ Call(p)
    /\ b \in refs[p] \cap locks[p]
    /\ Commit(brelse(K, b))
    /\ refs' = [refs EXCEPT ![p] = @ \ {b}]
    /\ locks' = [locks EXCEPT ![p] = @ \ {b}]
    /\ UNCHANGED <<pc, pdev, pnum, pbuf, pcont, reads, pmiss, slept>>
    /\ last' = [Ev("brelse", p, b) EXCEPT
                  !.dev = dev[b], !.num = num[b],
                  !.follows = (last.op = "bread_ret" /\ last.hit
                               /\ last.p = p /\ last.buf = b)]
    /\ Disturb(p)

(* blkunlock(buf) by a process that holds buf locked. *)
unlock_block(p, b) ==
    /\ Call(p)
    /\ b \in refs[p] \cap locks[p]
    /\ Commit(blkunlock(K, b))
    /\ locks' = [locks EXCEPT ![p] = @ \ {b}]
    /\ UNCHANGED <<pc, pdev, pnum, pbuf, pcont, reads, pmiss, slept, refs>>
    /\ last' = Ev("blkunlock", p, b)
    /\ Disturb(p)

(* bsync() after a run of its loop that ended as r says; sq tells whether  *)
(* this bsync() has run undisturbed so far.                                *)
BsyncContinue(p, r, sq) ==
    /\ Commit(r.k)
    /\ UNCHANGED refs
    /\ syncq' = IF r.out = "ret" THEN NoSync ELSE sq
    /\ CASE r.out = "ret" ->
              /\ Idle(p)
              /\ UNCHANGED locks
              /\ last' = [Ev("bsync_ret", p, NoBuf) EXCEPT
                            !.quiet = (sq.p = p),
                            !.wasdirty = sq.dirty]
         [] r.out = "sleep" ->
              /\ pc' = [pc EXCEPT ![p] = "blklock"]
              /\ pbuf' = [pbuf EXCEPT ![p] = r.buf]
              /\ pcont' = [pcont EXCEPT ![p] = "bsync"]
              /\ UNCHANGED <<pdev, pnum, reads, pmiss, slept, locks>>
              /\ last' = Ev("sleep_lock", p, r.buf)
         [] r.out = "io" ->
              /\ pc' = [pc EXCEPT ![p] = "bsync_io"]
              /\ pbuf' = [pbuf EXCEPT ![p] = r.buf]
              /\ pcont' = [pcont EXCEPT ![p] = ""]
              /\ locks' = [locks EXCEPT ![p] = @ \cup {r.buf}]
              /\ UNCHANGED <<pdev, pnum, reads, pmiss, slept>>
              /\ last' = Ev("bsync_io", p, r.buf)

(* blklock(buf) by a process that holds a reference to buf. *)
lock_block(p, b) ==
    /\ Call(p)
    /\ b \in refs[p] \ locks[p]
    /\ LET r == blklock(K, p, b)
       IN  /\ Commit(r.k)
           /\ IF r.out = "ok"
              THEN /\ locks' = [locks EXCEPT ![p] = @ \cup {b}]
                   /\ UNCHANGED <<pc, pbuf, pcont>>
                   /\ last' = Ev("blklock", p, b)
              ELSE /\ pc' = [pc EXCEPT ![p] = "blklock"]
                   /\ pbuf' = [pbuf EXCEPT ![p] = b]
                   /\ pcont' = [pcont EXCEPT ![p] = "blklock"]
                   /\ UNCHANGED locks
                   /\ last' = Ev("sleep_lock", p, b)
    /\ UNCHANGED <<pdev, pnum, reads, pmiss, slept, refs>>
    /\ Disturb(p)

(***************************************************************************)
(* Back from sleep() in blklock(), whoever called it: the public           *)
(* blklock(), getblk() (lines 137 and 188) or bsync() (line 342).          *)
(***************************************************************************)
blklock_wakeup(p) ==
    /\ GoOn(p, "blklock")
    /\ Awake(p)
    /\ LET b == pbuf[p]
           r == blklock_again(K, p, b)
       IN  IF r.out = "sleep"
           THEN /\ Commit(r.k)
                /\ Disturb(p)
                /\ UNCHANGED pvars
                /\ last' = [Ev("sleep_lock", p, b) EXCEPT !.retry = "lock"]
           ELSE CASE pcont[p] = "blklock" ->
                       /\ Commit(r.k)
                       /\ Disturb(p)
                       /\ Idle(p)
                       /\ locks' = [locks EXCEPT ![p] = @ \cup {b}]
                       /\ UNCHANGED refs
                       /\ last' = [Ev("blklock", p, b) EXCEPT !.retry = "lock"]
                  [] pcont[p] = "getblk" ->
                       /\ Disturb(p)
                       /\ GetblkReturned(p, enable_interrupts(r.k), b,
                                         pdev[p], pnum[p], pmiss[p],
                                         slept[p],
                                         [Ev("ret", p, b) EXCEPT
                                            !.dev = pdev[p], !.num = pnum[p],
                                            !.retry = "lock"])
                  [] pcont[p] = "bsync" ->
                       BsyncContinue(p, bsync_locked(r.k, p, b), Disturbed(p))

(* The holder of the lock of a valid buffer modifies its data. *)
set_dirty(p, b) ==
    /\ Call(p)
    /\ b \in refs[p] \cap locks[p]
    /\ "VALID" \in flags[b]
    /\ "DIRTY" \notin flags[b]
    /\ flags' = [flags EXCEPT ![b] = @ \cup {"DIRTY"}]
    /\ UNCHANGED <<dev, num, count, free_next, free_prev, hash_next, hash_prev,
                   chain, bchain, panic>>
    /\ intr' = K.intr
    /\ racy' = K.racy
    /\ UNCHANGED pvars
    /\ last' = Ev("dirty", p, b)
    /\ Disturb(p)

(* bsync() is called by an idle process. *)
bsync(p) ==
    /\ Call(p)
    /\ BsyncContinue(p, bsync_from(K, p, 0),
                     IF \A q \in Procs \ {p} :
                           pc[q] = "idle" /\ refs[q] = {} /\ locks[q] = {}
                     THEN [p |-> p, dirty |-> \E b \in Bufs : "DIRTY" \in flags[b]]
                     ELSE NoSync)

(* bdev_writeblk() of bsync() completes; the driver has released the       *)
(* buffer and the loop goes on with the next one.                          *)
bsync_write_done(p) ==
    /\ GoOn(p, "bsync_io")
    /\ Commit(bdev_writeblk(K, pbuf[p]))
    /\ pc' = [pc EXCEPT ![p] = "bsync"]
    /\ pbuf' = [pbuf EXCEPT ![p] = @ + 1]
    /\ locks' = [locks EXCEPT ![p] = @ \ {pbuf[p]}]
    /\ UNCHANGED <<pdev, pnum, pcont, reads, pmiss, slept, refs>>
    /\ last' = Ev("write_done", p, pbuf[p])
    /\ Disturb(p)

bsync_next(p) ==
    /\ GoOn(p, "bsync")
    /\ BsyncContinue(p, bsync_from(K, p, pbuf[p]), Disturbed(p))

Next ==
    \/ \E p \in Procs, d \in Devs, n \in Nums : bread(p, d, n)
    \/ \E p \in Procs : getblk_repeat(p)
    \/ \E p \in Procs : bread_done(p)
    \/ \E p \in Procs, b \in Bufs : release_block(p, b)
    \/ \E p \in Procs, b \in Bufs : lock_block(p, b)
    \/ \E p \in Procs, b \in Bufs : unlock_block(p, b)
    \/ \E p \in Procs : blklock_wakeup(p)
    \/ \E p \in Procs, b \in Bufs : set_dirty(p, b)
    \/ \E p \in Procs : bsync(p)
    \/ \E p \in Procs : bsync_write_done(p)
    \/ \E p \in Procs : bsync_next(p)

Spec == Init /\ [][Next]_vars

(***************************************************************************)
(* The cache with a caller that breaks the rule of brelse(): it releases a *)
(* buffer whose count is 0, one that it has released before or never held. *)
(***************************************************************************)
release_free(p, b) ==
    /\ Call(p)
    /\ count[b] = 0
    /\ Commit(brelse(K, b))
    /\ UNCHANGED pvars
    /\ last' = [Ev("brelse", p, b) EXCEPT !.dev = dev[b], !.num = num[b]]
    /\ Disturb(p)

NextDoubleFree ==
    \/ Next
    \/ \E p \in Procs, b \in Bufs : release_free(p, b)

SpecDoubleFree == Init /\ [][NextDoubleFree]_vars

(* The scheduler alone: the cache stays as binit() left it. *)
SchedSpec == Init /\ [][SchedNext]_vars

(***************************************************************************)
(* Properties of the buffer cache.                                         *)
(***************************************************************************)
Assigned(b) == (dev[b] # 0) \/ (num[b] # 0)
OnFreeList(b) == b \in Range(FreeList(K))
InBucket(b, i) == b \in Range(Bucket(K, i))

(* The model is well formed: the walks of the lists end, and a kpanic() is *)
(* one of those of buffer.c.                                               *)
TypeOK ==
    /\ panic \in {"", "getblk(0, 0)", "fs: asynchronous write",
                  "fs: freeing buffer twice"}
    /\ \A b \in Bufs : flags[b] \subseteq {"VALID", "DIRTY", "LOCKED"}
    /\ \A p \in Procs : locks[p] \subseteq Bufs /\ refs[p] \subseteq Bufs
    /\ ops \in 0 .. MaxOps
    /\ intr \in BOOLEAN
    /\ racy \subseteq {"free list", "hash queue", "count", "flags"}

(* C1: whenever getblk() or bread() returns a buffer for (dev, num), that  *)
(* buffer carries dev and num, has LOCKED set and has count >= 1, whatever *)
(* the other processes did while the caller slept.                         *)
C1_ReturnedBufferIsTheBlock ==
    (last.op \in {"getblk_ret", "bread_ret"}) =>
        /\ last.buf \in Bufs
        /\ dev[last.buf] = last.dev
        /\ num[last.buf] = last.num
        /\ "LOCKED" \in flags[last.buf]
        /\ count[last.buf] >= 1

(* A bread() returned after its caller slept, in getblk(), on a buffer     *)
(* that another process was reading.                                       *)
C1_Witness ==
    /\ last.op = "bread_ret"
    /\ last.slept # NoBuf
    /\ last.retry = "buf"

(* C2: every buffer has count >= 0, and count = 0 exactly when the buffer  *)
(* is linked on the free list.                                             *)
C2_CountZeroIffFree ==
    \A b \in Bufs :
        /\ count[b] >= 0
        /\ (count[b] = 0) <=> OnFreeList(b)

(* A brelse() has put a buffer back on the free list while another buffer  *)
(* is held twice.                                                          *)
C2_Witness ==
    /\ last.op = "brelse"
    /\ count[last.buf] = 0
    /\ OnFreeList(last.buf)
    /\ \E b \in Bufs : count[b] = 2

(* C3: no two buffers carry the same identity (dev, num) # (0, 0).         *)
C3_OneBufferPerBlock ==
    \A a, b \in Bufs :
        (a # b /\ Assigned(a)) => (dev[a] # dev[b] \/ num[a] # num[b])

(* A process that found its block in no buffer and slept on the global     *)
(* chain retried and found the block in a buffer that another process had  *)
(* given that identity meanwhile.                                          *)
C3_Witness ==
    /\ last.op = "sleep_buf"
    /\ last.retry = "any"
    /\ dev[last.buf] = last.dev
    /\ num[last.buf] = last.num

(* C4: every buffer with an identity is linked in exactly one hash queue,  *)
(* once, the queue (dev XOR num) mod BUFFERS_HASHTAB_SIZE of its identity, *)
(* and the search of that queue for its identity finds it.                 *)
C4_HashedByIdentity ==
    \A b \in Bufs :
        Assigned(b) =>
            LET i == Xor(dev[b], num[b]) % BUFFERS_HASHTAB_SIZE
            IN  /\ \A j \in Slots : InBucket(b, j) <=> (j = i)
                /\ Cardinality({x \in 1 .. Len(Bucket(K, i)) :
                                  Bucket(K, i)[x] = b}) = 1
                /\ search(K, i, dev[b], num[b]) = b

(* Two buffers with different identities are linked in the same hash       *)
(* queue.                                                                  *)
C4_Witness ==
    \E a, b \in Bufs, i \in Slots :
        /\ a # b
        /\ Assigned(a)
        /\ Assigned(b)
        /\ InBucket(a, i)
        /\ InBucket(b, i)
        /\ (dev[a] # dev[b] \/ num[a] # num[b])

(* C5: no two processes hold the same buffer locked, and a buffer that a   *)
(* process holds locked has LOCKED set.  A process that waits for a lock   *)
(* tests LOCKED again each time it is woken.                               *)
C5_LockIsExclusive ==
    /\ \A p, q \in Procs : (p # q) => (locks[p] \cap locks[q] = {})
    /\ \A p \in Procs : \A b \in locks[p] : "LOCKED" \in flags[b]
    /\ (last.op = "sleep_lock") => ("LOCKED" \in flags[last.buf])

(* A process took a lock in blklock() after it had slept for it, while the *)
(* other process still holds a reference to the buffer.                    *)
C5_Witness ==
    /\ last.op = "blklock"
    /\ last.retry = "lock"
    /\ last.buf \in locks[last.p]
    /\ \E q \in Procs \ {last.p} : last.buf \in refs[q]

(* C6: a bread(d, n) that comes right after the caller's brelse() of the   *)
(* buffer of (d, n) returns at once, the same buffer, with no device read; *)
(* and a bread() that took its buffer from the free list issued exactly    *)
(* one device read.                                                        *)
C6_SecondReadHits ==
    [][ /\ \A p \in Procs :
              (/\ last.op = "brelse"
               /\ last.p = p
               /\ bread(p, last.dev, last.num))
              => (/\ last'.op = "bread_ret"
                  /\ last'.buf = last.buf
                  /\ last'.reads = 0)
        /\ (last'.op = "getblk_ret" /\ last'.miss) => (reads'[last'.p] = 1)
        /\ (last'.op = "bread_ret" /\ last'.miss) => (last'.reads = 1)
      ]_vars

(* A bread() came right after the caller's brelse() of the buffer of the   *)
(* same block and returned that buffer without a device read.              *)
C6_Witness ==
    /\ last.op = "bread_ret"
    /\ last.retry = ""
    /\ last.follows
    /\ last.reads = 0
    /\ ~last.miss

(* C7, as claimed: a bread() whose caller slept on the chain of a buffer   *)
(* that another process was reading returns that same buffer, without a    *)
(* device read of its own.                                                 *)
C7_WaiterGetsSameBuffer ==
    (last.op = "bread_ret" /\ last.slept # NoBuf) =>
        (last.buf = last.slept /\ last.reads = 0)

(* C7, amended: a bread(d, n) called while another process reads (d, n)    *)
(* into buffer b sleeps on the chain of b; brelse(b) wakes every sleeper   *)
(* of b; and when the sleeper's retry is the very next step after the      *)
(* brelse() of b, still the buffer of (d, n), it returns b, locked and     *)
(* valid, without a device read.                                           *)
C7_WaiterGetsSameBufferIfNext ==
    [][ \A p \in Procs :
          /\ \A d \in Devs, n \in Nums, b \in Bufs :
                (/\ bread(p, d, n)
                 /\ Holds(b, d, n)
                 /\ \E q \in Procs \ {p} : pc[q] = "bread_io" /\ pbuf[q] = b)
                => (/\ p \in bchain'[b]
                    /\ pc'[p] = "getblk"
                    /\ slept'[p] = b)
          /\ \A b \in Bufs :
                (p \in bchain[b] /\ last'.op = "brelse" /\ last'.buf = b)
                => (p \notin chain' /\ \A c \in Bufs : p \notin bchain'[c])
          /\ (/\ slept[p] # NoBuf
              /\ last.op = "brelse"
              /\ last.buf = slept[p]
              /\ last.dev = pdev[p]
              /\ last.num = pnum[p]
              /\ getblk_repeat(p))
             => (/\ last'.op = "bread_ret"
                 /\ last'.buf = slept[p]
                 /\ last'.reads = 0
                 /\ "VALID" \in flags'[slept[p]]
                 /\ slept[p] \in locks'[p])
      ]_vars

(* The sleeper retried right after the brelse() and got the buffer it had  *)
(* waited for, without a device read.                                      *)
C7_Witness ==
    /\ last.op = "bread_ret"
    /\ last.retry = "buf"
    /\ last.follows
    /\ last.slept = last.buf
    /\ last.reads = 0

(* C8: a run of getblk(d, n) that finds (d, n) in no buffer while every    *)
(* buffer has count > 0 puts the caller to sleep on the global chain and   *)
(* changes no buffer and raises no panic; a sleeper of the global chain    *)
(* stays there, at the label repeat, until a step that drops a count to    *)
(* zero, and such a step wakes every sleeper of the global chain.          *)
C8_NoFreeBufferSleeps ==
    [][ /\ \A p \in Procs, d \in Devs, n \in Nums :
              (/\ \/ bread(p, d, n)
                  \/ (getblk_repeat(p) /\ pdev[p] = d /\ pnum[p] = n)
               /\ \A b \in Bufs : count[b] > 0 /\ ~Holds(b, d, n))
              => (/\ p \in chain'
                  /\ pc'[p] = "getblk"
                  /\ panic' = ""
                  /\ UNCHANGED <<dev, num, count, flags, free_next, free_prev,
                                 hash_next, hash_prev>>)
        /\ \A p \in Procs :
              (p \in chain) =>
                  /\ pc'[p] = "getblk"
                  /\ pdev'[p] = pdev[p]
                  /\ pnum'[p] = pnum[p]
                  /\ (p \notin chain') =>
                         \E b \in Bufs : count[b] > 0 /\ count'[b] = 0
        /\ (\E b \in Bufs : count[b] > 0 /\ count'[b] = 0) => (chain' = {})
      ]_vars

(* A process that slept on the global chain was woken, ran getblk() again  *)
(* from the hash search and was given a buffer from the free list.         *)
C8_Witness ==
    /\ last.op = "getblk_ret"
    /\ last.retry = "any"
    /\ last.miss

(* C9: when a bsync() that ran while every other process was idle and held *)
(* no buffer returns, no buffer has DIRTY set.                             *)
C9_SyncLeavesNoDirty ==
    (last.op = "bsync_ret" /\ last.quiet) =>
        (\A b \in Bufs : "DIRTY" \notin flags[b])

(* Such a bsync() returned, and a buffer was dirty when it began.          *)
C9_Witness ==
    /\ last.op = "bsync_ret"
    /\ last.quiet
    /\ last.wasdirty
    /\ \A b \in Bufs : "DIRTY" \notin flags[b]

(* C10: a brelse() that comes right after the bread() that returned its    *)
(* buffer, for a block that was cached, valid and unlocked, leaves every   *)
(* buffer's identity, count and flags and every hash queue's contents as   *)
(* they were before the bread().                                           *)
C10_ReadReleaseRestores ==
    [][ (/\ last.op = "bread_ret"
         /\ last.hit
         /\ last'.op = "brelse"
         /\ last'.p = last.p
         /\ last'.buf = last.buf)
        => (/\ dev' = last.pre.dev
            /\ num' = last.pre.num
            /\ count' = last.pre.count
            /\ flags' = last.pre.flags
            /\ \A i \in Slots :
                  Range(Bucket(K, i))' = last.pre.buckets[i])
      ]_vars

(* Such a pair has run on a buffer that another process holds too.         *)
C10_Witness ==
    /\ last.op = "brelse"
    /\ last.follows
    /\ count[last.buf] = 1

(* This step is a run of getblk(d, n) by p, from the label repeat. *)
GetblkRuns(p, d, n) ==
    \/ bread(p, d, n)
    \/ (getblk_repeat(p) /\ pdev[p] = d /\ pnum[p] = n)

(* No buffer carries (d, n). *)
Uncached(d, n) == search(K, HASH(d, n), d, n) = NoBuf

Clean(b) == "DIRTY" \notin flags[b]

(* C11, as claimed: the victim of a miss is the least recently used clean  *)
(* buffer, so it is not the buffer that the step before released while a   *)
(* clean buffer that was read and released earlier is on the free list.    *)
C11_VictimIsLeastRecentlyUsed ==
    [][ \A p \in Procs, d \in Devs, n \in Nums :
          (/\ GetblkRuns(p, d, n)
           /\ Uncached(d, n)
           /\ last.op = "brelse"
           /\ count[last.buf] = 0
           /\ Clean(last.buf)
           /\ \E w \in Bufs \ {last.buf} :
                 OnFreeList(w) /\ Clean(w) /\ "VALID" \in flags[w])
          => (last'.buf # last.buf)
      ]_vars

(* C11, amended: a run of getblk(d, n) that finds (d, n) in no buffer and  *)
(* a clean buffer at the head of the free list returns that head, with the *)
(* identity (d, n), and the search of the hash queue of its old identity   *)
(* no longer finds that identity; and a brelse() that drops the count of a *)
(* buffer that is not both valid and dirty to zero makes it the head of    *)
(* the free list, so that the buffer released last is the next victim.     *)
C11_VictimIsHeadLastReleased ==
    [][ /\ \A p \in Procs, d \in Devs, n \in Nums :
              (/\ GetblkRuns(p, d, n)
               /\ Uncached(d, n)
               /\ free_next[FREE] # FREE
               /\ Clean(free_next[FREE]))
              => \A v \in Bufs, od \in Devs \cup {0}, on \in Nums \cup {0} :
                    (v = free_next[FREE] /\ Holds(v, od, on))
                    => (/\ last'.op = "getblk_ret"
                        /\ last'.buf = v
                        /\ last'.miss
                        /\ dev'[v] = d
                        /\ num'[v] = n
                        /\ search(K, HASH(od, on), od, on)' = NoBuf)
        /\ \A b \in Bufs :
              (/\ last'.op = "brelse"
               /\ last'.buf = b
               /\ count'[b] = 0
               /\ ~("VALID" \in flags'[b] /\ "DIRTY" \in flags'[b]))
              => (free_next'[FREE] = b)
      ]_vars

(* A miss took the buffer that the step before had released, although a    *)
(* clean buffer that was read and released earlier was on the free list;   *)
(* that buffer is still cached.                                            *)
C11_Witness ==
    /\ last.op = "getblk_ret"
    /\ last.reused
    /\ \E w \in Bufs \ {last.buf} :
          /\ OnFreeList(w)
          /\ Clean(w)
          /\ "VALID" \in flags[w]
          /\ Assigned(w)

ValidDirty(b) == ("VALID" \in flags[b]) /\ ("DIRTY" \in flags[b])

(* C12: a brelse() that drops count to zero links the buffer at the end of *)
(* the free list when it is valid and dirty and at the begin otherwise; in *)
(* every state every buffer of the free list that is not both valid and    *)
(* dirty comes before every buffer of it that is; and a getblk() that      *)
(* takes a victim takes no valid and dirty buffer while a buffer that is   *)
(* not is on the free list.                                                *)
C12_CleanBeforeDirty ==
    /\ [](\A x, y \in 1 .. Len(FreeList(K)) :
            (x < y /\ ValidDirty(FreeList(K)[x])) => ValidDirty(FreeList(K)[y]))
    /\ [][ /\ \A b \in Bufs :
                 (last'.op = "brelse" /\ last'.buf = b /\ count'[b] = 0)
                 => IF ("VALID" \in flags'[b]) /\ ("DIRTY" \in flags'[b])
                    THEN free_prev'[FREE] = b /\ free_next'[b] = FREE
                    ELSE free_next'[FREE] = b /\ free_prev'[b] = FREE
           /\ \A p \in Procs, d \in Devs, n \in Nums, w \in Bufs :
                 (/\ GetblkRuns(p, d, n)
                  /\ Uncached(d, n)
                  /\ OnFreeList(w)
                  /\ ~ValidDirty(w))
                 => (/\ last'.buf \in Bufs
                     /\ ~ValidDirty(last'.buf)
                     /\ count'[last'.buf] = 1
                     /\ panic' = "")
         ]_vars

(* A getblk() took the clean buffer at the begin of the free list while a  *)
(* valid and dirty buffer, released before it, stays at the end.           *)
C12_Witness ==
    /\ last.op = "getblk_ret"
    /\ last.miss
    /\ last.reused
    /\ \E w \in Bufs : OnFreeList(w) /\ ValidDirty(w)

C20_NoLostWakeup ==
    /\ [](/\ \A b \in Bufs : (bchain[b] # {}) => ("LOCKED" \in flags[b])
          /\ (chain # {}) => (free_next[FREE] = FREE))
    /\ [][ /\ \A b \in Bufs :
                 ("LOCKED" \in flags[b] /\ "LOCKED" \notin flags'[b])
                 => (bchain'[b] = {})
           /\ (free_next[FREE] = FREE /\ free_next'[FREE] # FREE)
              => (chain' = {})
         ]_vars

(* A blkunlock() has cleared LOCKED of a buffer, and the process that      *)
(* slept for that buffer in getblk() is awake, at the label repeat.        *)
C20_Witness ==
    /\ last.op = "blkunlock"
    /\ "LOCKED" \notin flags[last.buf]
    /\ \E p \in Procs \ {last.p} :
          /\ pc[p] = "getblk"
          /\ ~pmiss[p]
          /\ Awake(p)
          /\ Holds(last.buf, pdev[p], pnum[p])

(* C13: a brelse() of a buffer whose count is 0 ends in kpanic("fs:        *)
(* freeing buffer twice"): the free list is left as it was, nobody asleep  *)
(* on the global chain or on a buffer is woken, and no flag changes (the   *)
(* buffer is not unlocked).                                                *)
C13_DoubleFreePanics ==
    [][ \A p \in Procs, b \in Bufs :
          release_free(p, b)
          => (/\ panic' = "fs: freeing buffer twice"
              /\ count'[b] = 0 - 1
              /\ UNCHANGED <<free_next, free_prev>>
              /\ UNCHANGED <<chain, bchain>>
              /\ UNCHANGED flags)
      ]_vars

(* The kernel has halted on the second brelse() of a buffer that carries a *)
(* block and is linked once in the free list.                              *)
C13_Witness ==
    /\ panic = "fs: freeing buffer twice"
    /\ last.op = "brelse"
    /\ count[last.buf] = 0 - 1
    /\ Assigned(last.buf)
    /\ Cardinality({x \in 1 .. Len(FreeList(K)) :
                      FreeList(K)[x] = last.buf}) = 1

(* C19: getblk(), blklock(), blkunlock(), brelse() and bsync() change the  *)
(* free list, the hash queues, the counts and the flags of the buffers     *)
(* only while interrupts are disabled, and interrupts are enabled when     *)
(* each of them returns.                                                   *)
C19_MutationsWithInterruptsOff ==
    /\ racy = {}
    /\ (last.op \in {"getblk_ret", "bread_ret", "blklock", "blkunlock",
                     "brelse", "bsync_ret"}) => intr

(* What does hold: only bsync() changes anything while interrupts are      *)
(* enabled, namely the count and the free list (lines 355-359, after its   *)
(* blklock() has enabled interrupts), and every operation that returns     *)
(* leaves interrupts enabled.                                              *)
OnlyBsyncMutatesWithInterruptsOn ==
    /\ (racy # {}) => /\ last.op = "bsync_io"
                      /\ racy \subseteq {"count", "free list"}
    /\ (last.op \in {"getblk_ret", "bread_ret", "blklock", "blkunlock",
                     "brelse", "bsync_ret"}) => intr

(***************************************************************************)
(* Properties of the scheduler.                                            *)
(***************************************************************************)
RunningProcs == {p \in Tasks : state[p] = "RUNNING"}

(* C15: at most one process is RUNNING in every state, and when yield()    *)
(* has switched exactly one is: the process it selected, which has the     *)
(* CPU, and which is IDLE when no process was READY.                       *)
C15_OneRunning ==
    /\ Cardinality(RunningProcs) <= 1
    /\ (yl.op \in {"yield", "stop"}) =>
           /\ RunningProcs = {yl.next}
           /\ curr_proc = yl.next
           /\ (yl.ready = {}) => (yl.next = IDLE)

(* The last process that was not stopped has called stop(): nothing is     *)
(* READY, and IDLE runs.                                                   *)
C15_Witness ==
    /\ yl.op = "stop"
    /\ yl.ready = {}
    /\ \A p \in Table : state[p] = "STOPPED"
    /\ RunningProcs = {IDLE}

(* C16: yield() selects IDLE only when total_tickets is 0, and otherwise a *)
(* READY process, whatever the winning ticket.                             *)
C16_IdleOnlyWithoutTickets ==
    (yl.op \in {"yield", "stop"}) =>
        /\ (yl.next = IDLE) => (yl.total = 0)
        /\ (yl.total > 0) => (yl.next \in yl.ready)

(* C17: rand() is in 0 .. 32767 and depends on CURRENT_TIME only (0 at     *)
(* time 0); the winning ticket is in 1 .. total_tickets for every          *)
(* total_tickets from 1 to 65538, the largest for which rand() *           *)
(* total_tickets fits a 32 bit int; and at time 0, with process 1 (10      *)
(* tickets) and process 2 (30 tickets) READY, the ticket is 1 and process  *)
(* 1 is selected.                                                          *)
C17_DrawInRange ==
    (yl.op \in {"draw", "yield", "stop"}) =>
        /\ yl.rnd \in 0 .. 32767
        /\ yl.rnd = CASE yl.clock = 0 -> 0
                      [] yl.clock = 1 -> 16838
                      [] yl.clock = 35 -> 32284
                      [] yl.clock = 24884 -> 32767
        /\ yl.rnd * yl.total <= 2147483647
        /\ (yl.total >= 1) => (yl.draw \in 1 .. yl.total)
        /\ (yl.clock = 0) => (yl.draw = 1)
        /\ (/\ yl.op = "yield"
            /\ yl.clock = 0
            /\ yl.ready = {1, 2}
            /\ yl.total = 40
            /\ yl.cur = IDLE)
           => (yl.next = 1 /\ curr_proc = 1)

(* next_process() was called with the largest number of tickets and the    *)
(* largest value of rand().                                                *)
C17_Witness ==
    /\ yl.op = "draw"
    /\ yl.total = 65538
    /\ yl.rnd = 32767
    /\ yl.draw = 65536

(* C18: a process that calls yield() while RUNNING with 0 < counter <      *)
(* PROC_QUANTUM gets the compensation trunc(tickets * PROC_QUANTUM /       *)
(* (PROC_QUANTUM - counter)) - tickets, which is counted in total_tickets  *)
(* of that yield(); otherwise its compensation is left as it was.          *)
C18_CompensationIsExact ==
    (yl.op \in {"yield", "stop"}) =>
        IF yl.ran /\ (0 < yl.counter) /\ (yl.counter < PROC_QUANTUM)
        THEN /\ yl.comp = ((yl.tickets * PROC_QUANTUM)
                           \div (PROC_QUANTUM - yl.counter)) - yl.tickets
             /\ (yl.ready = {yl.cur}) => (yl.total = yl.tickets + yl.comp)
        ELSE yl.comp = yl.comp0

====
